---- MODULE Spec2Model ----
(***************************************************************************)
(* A model of utilities.py: the composer `endow`, the attachments `debug`  *)
(* and `remember`, and remember's keying serialisation `to_bytes`.         *)
(*                                                                         *)
(* Python values are records [t |-> type name, v |-> payload].  Byte and   *)
(* text strings are sequences of one-character strings.                    *)
(***************************************************************************)
EXTENDS Integers, Sequences, FiniteSets, TLC

\* ------------------------------------------------------------------ bounds

\* Longest list/tuple/dict/set enumerated as an input of to_bytes.
MaxLen == 2
\* Number of operations in one behaviour: calls of the composed callable and
\* of its attachments, and attachments processed by endow.
MaxOps == 2

\* ---------------------------------------------------------- Python values

PInt(n) == [t |-> "int", v |-> n]
\* the float n.0 (only integral floats are enumerated)
PFloat(n) == [t |-> "float", v |-> n]
PBool(b) == [t |-> "bool", v |-> b]
PStr(s) == [t |-> "str", v |-> s]
PList(s) == [t |-> "list", v |-> s]
PTuple(s) == [t |-> "tuple", v |-> s]
\* a dict is the sequence of its <<key, value>> items in insertion order
PDict(items) == [t |-> "dict", v |-> items]
\* a set is the sequence of its elements in iteration order
PSet(s) == [t |-> "set", v |-> s]
\* range(start, stop) with step 1
PRange(a, b) == [t |-> "range", v |-> <<a, b>>]
PNone == [t |-> "None", v |-> <<>>]

Numeric == {"int", "float", "bool"}
Scalar == {"str", "int", "float", "bool"}

Num(x) == IF x.t = "bool" THEN (IF x.v THEN 1 ELSE 0) ELSE x.v

RangeLen(r) == IF r.v[2] > r.v[1] THEN r.v[2] - r.v[1] ELSE 0

\* Python's ==: numbers compare by value across int/float/bool, containers
\* compare elementwise within one container type, ranges as the sequences
\* they denote.
RECURSIVE PyEq(_, _)
PyEq(x, y) ==
  CASE x.t \in Numeric /\ y.t \in Numeric -> Num(x) = Num(y)
    [] x.t # y.t -> FALSE
    [] x.t = "str" -> x.v = y.v
    [] x.t \in {"list", "tuple"} ->
         /\ Len(x.v) = Len(y.v)
         /\ \A i \in DOMAIN x.v : PyEq(x.v[i], y.v[i])
    [] x.t = "dict" ->
         /\ Len(x.v) = Len(y.v)
         /\ \A i \in DOMAIN x.v : \E j \in DOMAIN y.v :
              PyEq(x.v[i][1], y.v[j][1]) /\ PyEq(x.v[i][2], y.v[j][2])
    [] x.t = "set" ->
         /\ Len(x.v) = Len(y.v)
         /\ \A i \in DOMAIN x.v : \E j \in DOMAIN y.v : PyEq(x.v[i], y.v[j])
    [] x.t = "range" ->
         /\ RangeLen(x) = RangeLen(y)
         /\ (RangeLen(x) > 0 => x.v[1] = y.v[1])
    [] OTHER -> TRUE

\* ------------------------------------------------------------ characters

\* the characters that occur in the enumerated texts, paths, keys and
\* encodings, in ASCII order
Chars ==
  << ",", "-", ".", "/", "0", "1", "2", "3", "4", "5", "6", "7", "8", "9",
     ":", "F", "K", "N", "R", "T", "[", "]", "a", "b", "c", "d", "e", "f",
     "g", "i", "l", "m", "n", "o", "p", "r", "s", "t", "u", "y", "{", "}" >>

Codes ==
  << 44, 45, 46, 47, 48, 49, 50, 51, 52, 53, 54, 55, 56, 57,
     58, 70, 75, 78, 82, 84, 91, 93, 97, 98, 99, 100, 101, 102,
     103, 105, 108, 109, 110, 111, 112, 114, 115, 116, 117, 121, 123, 125 >>

\* the byte value of a character (ASCII); PROTO and FRAME stand for the two
\* header bytes 0x80 0x04 of a protocol-4 pickle
Ord ==
  [c \in {Chars[i] : i \in DOMAIN Chars} |->
     Codes[CHOOSE i \in DOMAIN Chars : Chars[i] = c]]
  @@ ("PROTO" :> 128) @@ ("FRAME" :> 4)

Digits == <<"0", "1", "2", "3", "4", "5", "6", "7", "8", "9">>

RECURSIVE NatStr(_)
NatStr(n) ==
  IF n < 10 THEN <<Digits[n + 1]>>
  ELSE NatStr(n \div 10) \o <<Digits[(n % 10) + 1]>>

IntStr(n) == IF n < 0 THEN <<"-">> \o NatStr(-n) ELSE NatStr(n)

\* str(obj) for the scalar types
Str(obj) ==
  CASE obj.t = "str" -> obj.v
    [] obj.t = "int" -> IntStr(obj.v)
    [] obj.t = "float" -> IntStr(obj.v) \o <<".", "0">>
    [] obj.t = "bool" ->
         IF obj.v THEN <<"T", "r", "u", "e">> ELSE <<"F", "a", "l", "s", "e">>

\* bytes a < bytes b (lexicographic by byte value)
RECURSIVE BytesLt(_, _)
BytesLt(a, b) ==
  IF b = <<>> THEN FALSE
  ELSE IF a = <<>> THEN TRUE
  ELSE IF Ord[Head(a)] # Ord[Head(b)] THEN Ord[Head(a)] < Ord[Head(b)]
  ELSE BytesLt(Tail(a), Tail(b))

\* Python's < is defined between two numbers and between two strings; every
\* other pairing of the enumerated key types raises TypeError.
Orderable(x, y) ==
  \/ x.t \in Numeric /\ y.t \in Numeric
  \/ x.t = "str" /\ y.t = "str"

PyLt(x, y) ==
  IF x.t \in Numeric THEN Num(x) < Num(y) ELSE BytesLt(x.v, y.v)

\* ------------------------------------------------------------- to_bytes

\* the result of a to_bytes call that raised TypeError (no byte string
\* equals it: bytes are sequences of one-character strings)
TypeError == <<"TypeError">>

\* sep.join(parts)
RECURSIVE Join(_, _)
Join(sep, parts) ==
  IF parts = <<>> THEN <<>>
  ELSE IF Len(parts) = 1 THEN parts[1]
  ELSE parts[1] \o sep \o Join(sep, Tail(parts))

\* sorted(obj.items()): a stable insertion sort; items of one dict have
\* distinct keys, so the order of two items is the order of their keys
ItemLt(p, q) == PyLt(p[1], q[1])

RECURSIVE InsertItem(_, _)
InsertItem(e, s) ==
  IF s = <<>> THEN <<e>>
  ELSE IF ItemLt(e, Head(s)) THEN <<e>> \o s
  ELSE <<Head(s)>> \o InsertItem(e, Tail(s))

RECURSIVE SortedItems(_)
SortedItems(s) ==
  IF s = <<>> THEN <<>>
  ELSE InsertItem(s[Len(s)], SortedItems(SubSeq(s, 1, Len(s) - 1)))

\* sorted(...) of byte strings
RECURSIVE InsertBytes(_, _)
InsertBytes(e, s) ==
  IF s = <<>> THEN <<e>>
  ELSE IF BytesLt(e, Head(s)) THEN <<e>> \o s
  ELSE <<Head(s)>> \o InsertBytes(e, Tail(s))

RECURSIVE SortedBytes(_)
SortedBytes(s) ==
  IF s = <<>> THEN <<>>
  ELSE InsertBytes(s[Len(s)], SortedBytes(SubSeq(s, 1, Len(s) - 1)))

\* pickle.dumps(obj, protocol=4) of the values the fallback branch meets:
\* the protocol header, then the constructor and its arguments
PickleDumps(obj) ==
  <<"PROTO", "FRAME">> \o
  (CASE obj.t = "range" ->
          <<"r", "a", "n", "g", "e", "K">> \o IntStr(obj.v[1]) \o <<"K">>
          \o IntStr(obj.v[2]) \o <<"K", "1", "R">>
     [] OTHER -> <<"N">>)
  \o <<".">>

RECURSIVE to_bytes(_)
to_bytes(obj) ==
  CASE obj.t \in Scalar -> Str(obj)
    [] obj.t \in {"list", "tuple"} ->
         LET parts == [i \in DOMAIN obj.v |-> to_bytes(obj.v[i])]
         IN IF \E i \in DOMAIN parts : parts[i] = TypeError THEN TypeError
            ELSE <<"[">> \o Join(<<",">>, parts) \o <<"]">>
    [] obj.t = "dict" ->
         IF \E i, j \in DOMAIN obj.v :
              i # j /\ ~Orderable(obj.v[i][1], obj.v[j][1])
         THEN TypeError
         ELSE LET items == SortedItems(obj.v)
                  ks == [i \in DOMAIN items |-> to_bytes(items[i][1])]
                  vs == [i \in DOMAIN items |-> to_bytes(items[i][2])]
              IN IF \E i \in DOMAIN items : TypeError \in {ks[i], vs[i]}
                 THEN TypeError
                 ELSE <<"{">>
                      \o Join(<<",">>,
                              [i \in DOMAIN items |-> ks[i] \o <<":">> \o vs[i]])
                      \o <<"}">>
    [] obj.t = "set" ->
         LET parts == [i \in DOMAIN obj.v |-> to_bytes(obj.v[i])]
         IN IF \E i \in DOMAIN parts : parts[i] = TypeError THEN TypeError
            ELSE <<"{">> \o Join(<<",">>, SortedBytes(parts)) \o <<"}">>
    [] OTHER -> PickleDumps(obj)

\* ---------------------------------------------------------- get_cache_id

\* hashlib's SHA-1 is not computed here: the digest is stood in for by a
\* 24-bit multiplicative hash of the same byte stream, so that, like the
\* six hexadecimal characters kept of the real digest, it is a function of
\* the bytes alone and is not injective.
HashBits == 16777216

RECURSIVE HashFrom(_, _, _)
HashFrom(h, bytes, i) ==
  IF i > Len(bytes) THEN h
  ELSE HashFrom((h * 33 + Ord[bytes[i]]) % HashBits, bytes, i + 1)

\* hasher.update(bytes) on a hasher in state h
HashUpdate(h, bytes) == HashFrom(h, bytes, 1)

HexDigits ==
  <<"0", "1", "2", "3", "4", "5", "6", "7", "8", "9",
    "a", "b", "c", "d", "e", "f">>

\* the n low hexadecimal digits of h, most significant first
RECURSIVE Hex(_, _)
Hex(h, n) ==
  IF n = 0 THEN <<>> ELSE Hex(h \div 16, n - 1) \o <<HexDigits[(h % 16) + 1]>>

\* get_cache_id(*args, **kwargs) with the default hash_algo and length: both
\* serialisations are fed to one hasher, and the first 6 characters of the
\* hexadecimal digest are returned.  The enumerated calls pass no keyword
\* named hash_algo or length.
get_cache_id(args, kwargs) ==
  LET a == to_bytes(PTuple(args))
      k == to_bytes(PDict(kwargs))
  IN IF TypeError \in {a, k} THEN TypeError
     ELSE Hex(HashUpdate(HashUpdate(5381, a), k), 6)

\* --------------------------------------------------- the wrapped callables

Return(v) == [kind |-> "return", val |-> v]
Raise(e) == [kind |-> "raise", val |-> e]

kIterator == PStr(<<"i", "t", "e", "r", "a", "t", "o", "r">>)
kFactor == PStr(<<"f", "a", "c", "t", "o", "r">>)

\* the elements a for-loop over obj yields; NotIterable for a non-iterable
NotIterable == <<"NotIterable">>
Iterate(obj) ==
  CASE obj.t \in {"list", "tuple", "set"} -> obj.v
    [] obj.t = "dict" -> [i \in DOMAIN obj.v |-> obj.v[i][1]]
    [] obj.t = "str" -> [i \in DOMAIN obj.v |-> PStr(<<obj.v[i]>>)]
    [] obj.t = "range" -> [i \in 1..RangeLen(obj) |-> PInt(obj.v[1] + i - 1)]
    [] OTHER -> NotIterable

RECURSIVE SumNum(_)
SumNum(s) == IF s = <<>> THEN 0 ELSE Num(Head(s)) + SumNum(Tail(s))

\* the value of keyword k in the items kw (k is present)
KwGet(kw, k) == kw[CHOOSE i \in DOMAIN kw : kw[i][1] = k][2]
KwHas(kw, k) == \E i \in DOMAIN kw : kw[i][1] = k

\* whether the arguments bind to f's parameters (iterator, factor=1)
TestFBinds(args, kwargs) ==
  ~ \/ Len(args) > 2
    \/ \E i \in DOMAIN kwargs : kwargs[i][1] \notin {kIterator, kFactor}
    \/ Len(args) >= 1 /\ KwHas(kwargs, kIterator)
    \/ Len(args) >= 2 /\ KwHas(kwargs, kFactor)
    \/ Len(args) = 0 /\ ~KwHas(kwargs, kIterator)

\* the test's f(iterator, factor=1): the sum of the iterator times an int
\* factor; a non-int factor raises AttributeError
TestF(args, kwargs) ==
  IF ~TestFBinds(args, kwargs) THEN Raise("TypeError")
     ELSE
       LET iterator == IF Len(args) >= 1 THEN args[1] ELSE KwGet(kwargs, kIterator)
           factor == IF Len(args) >= 2 THEN args[2]
                     ELSE IF KwHas(kwargs, kFactor) THEN KwGet(kwargs, kFactor)
                     ELSE PInt(1)
           elems == Iterate(iterator)
       IN IF elems = NotIterable THEN Raise("TypeError")
          ELSE IF \E i \in DOMAIN elems : elems[i].t \notin Numeric
          THEN Raise("TypeError")
          ELSE IF factor.t # "int" THEN Raise("AttributeError")
          ELSE IF \E i \in DOMAIN elems : elems[i].t = "float"
          THEN Return(PFloat(SumNum(elems) * factor.v))
          ELSE Return(PInt(SumNum(elems) * factor.v))

\* the built-in len, the other callable that is wrapped
BuiltinLen(args, kwargs) ==
  IF Len(args) # 1 \/ kwargs # <<>> THEN Raise("TypeError")
  ELSE CASE args[1].t \in {"list", "tuple", "set", "dict", "str"} ->
              Return(PInt(Len(args[1].v)))
         [] args[1].t = "range" -> Return(PInt(RangeLen(args[1])))
         [] OTHER -> Raise("TypeError")

Functions == {"f", "len"}

\* function.__name__ as text
FunctionName(fn) == IF fn = "f" THEN <<"f">> ELSE <<"l", "e", "n">>

Apply(fn, args, kwargs) ==
  IF fn = "f" THEN TestF(args, kwargs) ELSE BuiltinLen(args, kwargs)

\* ----------------------------------------------------------------- endow

\* Attachment values: a Bundle, a class (debug or remember), a plain
\* function, or a non-callable literal.
BundleOf(method, args, kwargs) ==
  [k |-> "Bundle", method |-> method, args |-> args, kwargs |-> kwargs]
ClassOf(cls) == [k |-> "class", cls |-> cls]
FunctionOf(name) == [k |-> "function", name |-> name]
Literal(v) == [k |-> "literal", val |-> v]

\* the constructors' parameters after (wrapper, wrapped_name), in order,
\* and their defaults
Params(cls) ==
  IF cls = "debug" THEN <<"log_file", "no_arrays">> ELSE <<"cachedir", "warn">>

NoLogFile == <<>>
DotSlash == <<".", "/">>

Defaults(cls) ==
  IF cls = "debug" THEN [log_file |-> NoLogFile, no_arrays |-> FALSE]
  ELSE [cachedir |-> DotSlash, warn |-> TRUE]

\* cachedir.rstrip("/")
RECURSIVE Rstrip(_)
Rstrip(s) ==
  IF s # <<>> /\ s[Len(s)] = "/" THEN Rstrip(SubSeq(s, 1, Len(s) - 1)) ELSE s

reset_when_lines == 10000

\* cls(wrapper, wrapped_name, *args, **kwargs): the instance, or the error
\* Python's argument binding raises.  kwargs is a function from parameter
\* names to values.
Instantiate(cls, wrapped_name, args, kwargs) ==
  LET ps == Params(cls)
      bad == \/ Len(args) > Len(ps)
             \/ \E n \in DOMAIN kwargs : \A i \in DOMAIN ps : ps[i] # n
             \/ \E i \in DOMAIN args : ps[i] \in DOMAIN kwargs
      given == [n \in {ps[i] : i \in DOMAIN ps} |->
                  IF n \in DOMAIN kwargs THEN kwargs[n]
                  ELSE IF \E i \in DOMAIN args : ps[i] = n
                  THEN args[CHOOSE i \in DOMAIN args : ps[i] = n]
                  ELSE Defaults(cls)[n]]
  IN IF bad THEN Raise("TypeError")
     ELSE IF cls = "debug"
     THEN Return([cls |-> "debug", callback |-> "wrapper",
                  wrapped_name |-> wrapped_name,
                  log_file |-> given["log_file"],
                  no_arrays |-> given["no_arrays"],
                  reset_when_lines |-> reset_when_lines])
     ELSE Return([cls |-> "remember", callback |-> "wrapper",
                  wrapped_name |-> wrapped_name,
                  path |-> Rstrip(given["cachedir"]),
                  warn |-> given["warn"]])

\* instance.main, the bound entry point
BoundMain(inst) == [k |-> "method", name |-> "main", self |-> inst]

\* what the loop body binds for one attachment value: the value to set, or
\* the error raised.  A plain function is callable, so it is called with
\* (wrapper, name); what it returns (None here) has no attribute main.
Classify(value, wrapped_name) ==
  CASE value.k = "Bundle" ->
         LET r == Instantiate(value.method, wrapped_name, value.args, value.kwargs)
         IN IF r.kind = "raise" THEN r ELSE Return(BoundMain(r.val))
    [] value.k = "class" ->
         LET r == Instantiate(value.cls, wrapped_name, <<>>, <<>>)
         IN IF r.kind = "raise" THEN r ELSE Return(BoundMain(r.val))
    [] value.k = "function" -> Raise("AttributeError")
    [] OTHER -> Return(value)

\* setattr(wrapper, attribute, value) on a function object: __name__ takes
\* only a str and __dict__ only a dict (here the empty dict), which replaces
\* every attribute set so far; any other name, __call__ included, is stored
\* in the function's attribute dictionary.
SetAttr(w, attribute, value) ==
  CASE attribute = "__name__" ->
         IF value.k = "literal" /\ value.val.t = "str"
         THEN Return([w EXCEPT !.name = value.val])
         ELSE Raise("TypeError")
    [] attribute = "__dict__" ->
         IF value.k = "literal" /\ value.val.t = "dict"
         THEN Return([w EXCEPT !.dict = <<>>])
         ELSE Raise("TypeError")
    [] OTHER ->
         Return([w EXCEPT !.dict =
                   [n \in DOMAIN w.dict \cup {attribute} |->
                      IF n = attribute THEN value ELSE w.dict[n]]])

\* the function object `wrapper` as def creates it
NewWrapper ==
  [status |-> "composed",
   name |-> PStr(<<"w", "r", "a", "p", "p", "e", "r">>),
   dict |-> <<>>]

\* the for loop of endow over the attachments, in order; an error raised in
\* the loop leaves endow without returning a wrapper
RECURSIVE EndowLoop(_, _, _)
EndowLoop(w, fn, atts) ==
  IF atts = <<>> THEN w
  ELSE LET attribute == Head(atts)[1]
           bound == Classify(Head(atts)[2], FunctionName(fn))
       IN IF bound.kind = "raise"
          THEN [status |-> "raised", error |-> bound.val]
          ELSE LET r == SetAttr(w, attribute, bound.val)
               IN IF r.kind = "raise"
                  THEN [status |-> "raised", error |-> r.val]
                  ELSE EndowLoop(r.val, fn, Tail(atts))

endow(fn, atts) == EndowLoop(NewWrapper, fn, atts)

\* a wrapper that caught what the function raised and returned None
WrapperSwallows(fn, a) ==
  IF Apply(fn, a.args, a.kwargs).kind = "raise" THEN Return(PNone)
  ELSE Apply(fn, a.args, a.kwargs)

\* wrapper(*args, **kwargs): the closure calls the function it captured
Wrapper(fn, a) == Apply(fn, a.args, a.kwargs)

\* ---------------------------------------------------------------- inputs

L12 == PList(<<PInt(1), PInt(2)>>)
F12 == PList(<<PFloat(1), PInt(2)>>)
sA == PStr(<<"a">>)
sB == PStr(<<"b">>)
Call(args, kwargs) == [args |-> args, kwargs |-> kwargs]

\* the argument sets of the enumerated calls
ArgSets ==
  { Call(<<PRange(0, 5), PInt(2)>>, <<>>),
    Call(<<L12, PInt(2)>>, <<>>),
    Call(<<F12, PInt(2)>>, <<>>),
    Call(<<L12, PFloat(2)>>, <<>>),
    Call(<<L12, PStr(<<"2">>)>>, <<>>),
    Call(<<>>, << <<kIterator, L12>>, <<kFactor, PInt(2)>> >>),
    Call(<<>>, << <<kFactor, PInt(2)>>, <<kIterator, L12>> >>),
    Call(<<PDict(<< <<PInt(1), sA>>, <<sB, PInt(2)>> >>)>>, <<>>) }

\* the places calls are made from: the caller's file (its absolute path)
\* and line
FileA == <<"/", "a", ".", "p", "y">>
FileB == <<"/", "b", ".", "p", "y">>
Sites ==
  { [file |-> FileA, line |-> 12], [file |-> FileA, line |-> 30],
    [file |-> FileB, line |-> 12] }

\* get_caller_info() called from an entry point that site called
get_caller_info(site) == <<site.file, site.line>>

\* cache_id: None, or a caller-chosen text
NoId == <<"None">>
Custom == <<"c", "u", "s", "t", "o", "m">>
CacheIds == {NoId, Custom}

\* ----------------------------------------------------------------- state

VARIABLES
  function,   \* the callable passed to endow
  wrapper,    \* what endow returned: the function object and its attributes
  cache,      \* the files of the cache directory: path -> contents
  log,        \* the log file
  stdout,     \* what was printed to sys.stdout
  numpy,      \* numpy's version and its process-wide print state
  calls,      \* how many times the wrapped callable has been invoked
  pc,         \* "idle", or "callback" while an entry point awaits the delegate
  frame,      \* the locals of the entry point that awaits the delegate
  ops,        \* operations started so far (endow: one per attachment)
  prev,       \* the outcome of the operation completed before the last one
  last        \* the outcome of the operation completed last

vars ==
  <<function, wrapper, cache, log, stdout, numpy, calls, pc, frame, ops,
    prev, last>>

NoOp == [op |-> "none"]
NoFrame == [op |-> "none"]
NoKey == <<"NoKey">>

NoFiles == <<>>
Exists(files, path) == path \in DOMAIN files
\* a write that emptied the directory first
WriteFileAlone(files, path, data) == [q \in {path} |-> data]

WriteFile(files, path, data) ==
  [q \in DOMAIN files \cup {path} |-> IF q = path THEN data ELSE files[q]]

\* pickle.dump(out, file) and pickle.load(file) of the values the wrapped
\* callables return
PickleDump(out) == [fmt |-> "pickle", obj |-> out]
PickleLoad(data) ==
  IF data.fmt = "pickle" THEN Return(data.obj) ELSE Raise("EOFError")

\* ------------------------------------------------------ keyword binding

kDebugMsg == PStr(<<"d", "e", "b", "u", "g", "_", "m", "s", "g">>)
kCacheId == PStr(<<"c", "a", "c", "h", "e", "_", "i", "d">>)
kSkip == PStr(<<"s", "k", "i", "p">>)

\* the keyword-only parameters of main (lines 137 and 238)
Reserved(cls) == IF cls = "debug" THEN {kDebugMsg} ELSE {kCacheId, kSkip}

\* the call as the caller writes it: the arguments meant for the delegate,
\* then the keywords meant for the entry point
WithKeywords(a, extra) == Call(a.args, a.kwargs \o extra)

RECURSIVE Without(_, _)
Without(kw, names) ==
  IF kw = <<>> THEN <<>>
  ELSE (IF Head(kw)[1] \in names THEN <<>> ELSE <<Head(kw)>>)
       \o Without(Tail(kw), names)

\* a main that handed every keyword it was given on to the delegate
ForwardedAll(cls, written) == written

\* (*args, **kwargs) as main binds them: the keywords main names itself
\* are bound to its own parameters, the others collected in kwargs
Forwarded(cls, written) ==
  Call(written.args, Without(written.kwargs, Reserved(cls)))

\* no call of the delegate was made
NoCall == [args |-> <<>>, kwargs |-> <<>>, made |-> FALSE]

\* ------------------------------------------------------------ direct call

\* wrapper(*args, **kwargs) called by the user
DirectCall(a) ==
  /\ pc = "idle" /\ ops < MaxOps
  /\ wrapper.status = "composed"
  /\ ops' = ops + 1
  /\ calls' = calls + 1
  /\ prev' = last
  /\ last' = [op |-> "direct", a |-> a, out |-> Wrapper(function, a),
              calls0 |-> calls, cache0 |-> cache, log0 |-> log,
              stdout0 |-> stdout]
  /\ UNCHANGED <<function, wrapper, cache, log, stdout, numpy, pc, frame>>

\* --------------------------------------------------------------- remember

\* the remember instance bound under wrapper.remember
RememberSelf == wrapper.dict["remember"].self

\* self.get_cache_id(...) on each call the behaviours make of it, computed
\* once: on an argument set, on a wrapped name, on a caller's file
CacheIdCalls ==
  ArgSets
  \cup { Call(<<PStr(FunctionName(fn))>>, <<>>) : fn \in Functions }
  \cup { Call(<<PStr(get_caller_info(site)[1])>>, <<>>) : site \in Sites }

CacheIdOf == [c \in CacheIdCalls |-> get_cache_id(c.args, c.kwargs)]

\* a key that also hashed in the caller's line
DerivedKeyWithLine(self, site, a) ==
  IF CacheIdOf[a] = TypeError THEN TypeError
  ELSE CacheIdOf[Call(<<PStr(get_caller_info(site)[1])>>, <<>>)]
       \o NatStr(get_caller_info(site)[2])
       \o CacheIdOf[Call(<<PStr(self.wrapped_name)>>, <<>>)]
       \o CacheIdOf[a]

\* lines 247-256: filename_id + wrapped_id + args_id
JoinIds(filename_id, wrapped_id, args_id) ==
  IF args_id = TypeError THEN TypeError
  ELSE filename_id \o wrapped_id \o args_id

DerivedKey(self, site, a) ==
  JoinIds(CacheIdOf[Call(<<PStr(get_caller_info(site)[1])>>, <<>>)],
          CacheIdOf[Call(<<PStr(self.wrapped_name)>>, <<>>)],
          CacheIdOf[a])

\* a key derived from the arguments even when cache_id is given
EffectiveKeyDerived(self, site, a, cache_id) == DerivedKey(self, site, a)

EffectiveKey(self, site, a, cache_id) ==
  IF cache_id = NoId THEN DerivedKey(self, site, a) ELSE cache_id

\* f"{self.path}/{cache_id}"
CachePath(self, key) == self.path \o <<"/">> \o key

\* a look-up that never finds the file
LookupMisses(files, key, path) ==
  IF key = TypeError
  THEN [branch |-> "error", key |-> NoKey, path |-> NoKey]
  ELSE [branch |-> "miss", key |-> key, path |-> path]

\* os.path.exists(cache_path) decides between the hit and the miss (line
\* 260); an error raised while the key was derived reaches neither
Lookup(files, key, path) ==
  IF key = TypeError
  THEN [branch |-> "error", key |-> NoKey, path |-> NoKey]
  ELSE [branch |-> IF Exists(files, path) THEN "hit" ELSE "miss",
        key |-> key, path |-> path]

LookupKey(self, files, key) == Lookup(files, key, CachePath(self, key))

\* a main that looked the key up before it looked at skip
SkipUnlessHit(plan, skip) ==
  IF skip /\ plan.branch # "hit"
  THEN [branch |-> "skip", key |-> NoKey, path |-> NoKey]
  ELSE plan
DecideLooksFirst(self, files, site, a, cache_id, skip) ==
  SkipUnlessHit(LookupKey(self, files, EffectiveKey(self, site, a, cache_id)),
                skip)

\* the branch remember.main takes (lines 240-260): skip before anything
\* else, then the key, then the look-up of cache_path
Decide(self, files, site, a, cache_id, skip) ==
  IF skip THEN [branch |-> "skip", key |-> NoKey, path |-> NoKey]
  ELSE LookupKey(self, files, EffectiveKey(self, site, a, cache_id))

\* the warning printed on a branch, when self.warn is set
Warning(self, branch) ==
  IF self.warn /\ branch # "error" THEN <<branch>> ELSE <<>>

\* the outcome of a memoized call: a is what the arguments held when the
\* call was made, live what the same objects hold now
RememberDone(site, a, live, cache_id, skip, plan, out, invoked, cache0, calls0, passed) ==
  [op |-> "remember", site |-> site, a |-> a, live |-> live,
   cache_id |-> cache_id,
   skip |-> skip, branch |-> plan.branch, key |-> plan.key,
   path |-> plan.path, out |-> out, invoked |-> invoked,
   calls0 |-> calls0, cache0 |-> cache0, passed |-> passed]

\* the keywords a caller writes for remember.main itself
RememberKeywords(cache_id, skip) ==
  (IF cache_id = NoId THEN <<>> ELSE << <<kCacheId, PStr(cache_id)>> >>)
  \o (IF skip THEN << <<kSkip, PBool(TRUE)>> >> ELSE <<>>)

\* remember.main up to the point where it returns, raises, or hands
\* control to the delegate (lines 238-271)
RememberCall(site, a, cache_id, skip) ==
  /\ pc = "idle" /\ ops < MaxOps
  /\ wrapper.status = "composed" /\ "remember" \in DOMAIN wrapper.dict
  /\ ops' = ops + 1
  /\ \E plan \in { Decide(RememberSelf, cache, site, a, cache_id, skip) } :
        /\ stdout' = stdout \o Warning(RememberSelf, plan.branch)
        /\ IF plan.branch = "miss"
           THEN /\ calls' = calls + 1
                /\ pc' = "callback"
                /\ frame' = [op |-> "remember", site |-> site, a |-> a,
                             live |-> a,
                             cache_id |-> cache_id, plan |-> plan,
                             cache0 |-> cache, calls0 |-> calls,
                             passed |->
                               Forwarded("remember",
                                 WithKeywords(a, RememberKeywords(cache_id,
                                                                  skip)))]
                /\ UNCHANGED <<prev, last>>
           ELSE /\ prev' = last
                /\ last' = RememberDone(
                     site, a, a, cache_id, skip, plan,
                     CASE plan.branch = "skip" -> Return(PNone)
                       [] plan.branch = "error" -> Raise("TypeError")
                       [] OTHER -> PickleLoad(cache[plan.path]),
                     0, cache, calls, NoCall)
                /\ UNCHANGED <<calls, pc, frame>>
  /\ UNCHANGED <<function, wrapper, cache, log, numpy>>

\* a main that formatted cache_path again, from what the arguments hold
\* once the delegate has finished
WritePathRederived(self, fr) ==
  CachePath(self, EffectiveKey(self, fr.site, fr.live, fr.cache_id))

\* the path line 272 opens: the local cache_path, bound at line 259
WritePath(self, fr) == fr.plan.path

\* the delegate finishes (lines 271-274): an error propagates, a result is
\* written to cache_path and returned
RememberResume ==
  /\ pc = "callback" /\ frame.op = "remember"
  /\ LET out == Wrapper(function, frame.passed)
     IN /\ cache' = IF out.kind = "return"
                    THEN WriteFile(cache, WritePath(RememberSelf, frame),
                                   PickleDump(out.val))
                    ELSE cache
        /\ prev' = last
        /\ last' = RememberDone(frame.site, frame.a, frame.live,
                                frame.cache_id, FALSE,
                                frame.plan, out, 1, frame.cache0,
                                frame.calls0, frame.passed)
  /\ pc' = "idle"
  /\ frame' = NoFrame
  /\ UNCHANGED <<function, wrapper, log, stdout, numpy, calls, ops>>

\* what open(cache_path, "wb") leaves when nothing is written after it
Truncated == [fmt |-> "empty", obj |-> PNone]

\* the delegate returned and line 272 fails: open(cache_path, "wb") has
\* created the file, pickle.dump raises before it has written the whole
\* result, and the error leaves main
RememberPersistFails(err) ==
  /\ pc = "callback" /\ frame.op = "remember"
  /\ \E out \in { Wrapper(function, frame.passed) } :
        /\ out.kind = "return"
        /\ cache' = WriteFile(cache, WritePath(RememberSelf, frame), Truncated)
        /\ prev' = last
        /\ last' = RememberDone(frame.site, frame.a, frame.live,
                                frame.cache_id, FALSE,
                                frame.plan, Raise(err), 1, frame.cache0,
                                frame.calls0, frame.passed)
  /\ pc' = "idle"
  /\ frame' = NoFrame
  /\ UNCHANGED <<function, wrapper, log, stdout, numpy, calls, ops>>

\* what the objects passed as a may hold after an in-place change: each
\* argument is the same object, and a list, dict or set may hold other
\* contents
SameObjects(x, y) ==
  \/ x = y
  \/ x.t = y.t /\ x.t \in {"list", "dict", "set"}

Mutations(a) ==
  { b \in ArgSets :
      /\ b # a
      /\ Len(b.args) = Len(a.args) /\ Len(b.kwargs) = Len(a.kwargs)
      /\ \A i \in DOMAIN a.args : SameObjects(a.args[i], b.args[i])
      /\ \A i \in DOMAIN a.kwargs :
           /\ a.kwargs[i][1] = b.kwargs[i][1]
           /\ SameObjects(a.kwargs[i][2], b.kwargs[i][2]) }

\* an argument object of the memoized call is changed in place: by the
\* delegate while main awaits it (after line 271 has passed it the
\* arguments), or by the caller once main has returned
MutateArgument ==
  /\ \/ /\ pc = "callback" /\ frame.op = "remember"
        /\ \E b \in Mutations(frame.live) : frame' = [frame EXCEPT !.live = b]
        /\ UNCHANGED last
     \/ /\ pc = "idle" /\ last.op = "remember"
        /\ \E b \in Mutations(last.live) : last' = [last EXCEPT !.live = b]
        /\ UNCHANGED frame
  /\ UNCHANGED <<function, wrapper, cache, log, stdout, numpy, calls, pc, ops,
                 prev>>

\* ------------------------------------------------------------------ debug

\* the debug instance bound under wrapper.debug
DebugSelf == wrapper.dict["debug"].self

LogPath == <<"d", ".", "l", "o", "g">>

\* numpy's print state as a fresh interpreter has it, and as a program that
\* chose its own precision and formatter has it
NumpyDefaults(version) ==
  [version |-> version, reprFn |-> "default", strFn |-> "default",
   threshold |-> 1000, edgeitems |-> 3, precision |-> 8,
   formatter |-> "None", override_repr |-> "None"]
NumpyUser(version) ==
  [NumpyDefaults(version) EXCEPT !.precision = 4, !.formatter = "user"]

\* lines 152-164.  numpy 1: set_string_function for repr and for str.
\* numpy 2.0: set_printoptions(threshold, edgeitems, formatter).  Later
\* versions: set_printoptions(override_repr=...), which resets formatter as
\* every set_printoptions call does.
Suppress(np) ==
  CASE np.version = "1" -> [np EXCEPT !.reprFn = "array", !.strFn = "array"]
    [] np.version = "2.0" ->
         [np EXCEPT !.threshold = 3, !.edgeitems = 1, !.formatter = "blank"]
    [] OTHER -> [np EXCEPT !.override_repr = "array", !.formatter = "None"]

\* lines 188-203.  numpy 1: set_string_function(None) resets the repr
\* function only.  numpy 2.0: the listed options are set to numpy's
\* defaults.  Later versions: set_printoptions() resets formatter and
\* override_repr and leaves the other options.
Restore(np) ==
  CASE np.version = "1" -> [np EXCEPT !.reprFn = "default"]
    [] np.version = "2.0" ->
         [np EXCEPT !.threshold = 1000, !.edgeitems = 3, !.precision = 8,
                    !.formatter = "None"]
    [] OTHER -> [np EXCEPT !.override_repr = "None", !.formatter = "None"]

\* the frames of the traceback of an error the delegate raised: main, then
\* wrapper, then f itself when the error is raised in f's body
TraceFrames(fn, a) ==
  IF fn = "f" /\ TestFBinds(a.args, a.kwargs) THEN 3 ELSE 2

\* the lines each record adds to the log
LinesOf(rec) ==
  CASE rec.kind = "start" -> 1
    [] rec.kind = "done" -> IF rec.note THEN 4 ELSE 3
    [] rec.kind = "failed" -> 2
    [] rec.kind = "trace" -> 2 + 2 * rec.frames

RECURSIVE SumLines(_)
SumLines(recs) ==
  IF recs = <<>> THEN 0 ELSE LinesOf(Head(recs)) + SumLines(Tail(recs))

\* the log file: whether it exists, the lines it held when the program
\* started, and the records appended since
NoLog == [exists |-> FALSE, old |-> 0, recs |-> <<>>]
LineCount(l) == l.old + SumLines(l.recs)

\* a reset that waits until the count exceeds the threshold
ResetWhenOver(self, l) ==
  IF l.exists /\ LineCount(l) > self.reset_when_lines THEN NoLog ELSE l

\* reset_maybe (lines 205-214)
reset_maybe(self, l) ==
  IF l.exists /\ LineCount(l) >= self.reset_when_lines THEN NoLog ELSE l

\* a print that wrote at the head of the file
PrependLog(l, recs) == [exists |-> TRUE, old |-> l.old, recs |-> recs \o l.recs]

\* print(..., file=open(self.log_file, "a")) on the log file
AppendLog(l, recs) == [exists |-> TRUE, old |-> l.old, recs |-> l.recs \o recs]

\* h, m, s as line 169 computes them from dt (in whole seconds)
Duration(dt) ==
  [h |-> dt \div 3600,
   m |-> (dt - dt \div 3600) \div 60,
   s |-> dt - (dt - dt \div 3600) \div 60]

NoMsg == <<"None">>
Msgs == {NoMsg, <<"n", "o", "t", "e">>}

\* what main prints once the delegate has finished: the done block (lines
\* 170-176), or the failure line and the traceback (lines 180-186)
DebugRecords(fn, a, debug_msg, out, dt) ==
  IF out.kind = "return"
  THEN << [kind |-> "done", h |-> Duration(dt).h, m |-> Duration(dt).m,
           s |-> Duration(dt).s, input |-> a, output |-> out.val,
           note |-> debug_msg # NoMsg] >>
  ELSE << [kind |-> "failed"],
          [kind |-> "trace", error |-> out.val, frames |-> TraceFrames(fn, a)] >>

\* a main whose except clause re-raised
MainPropagates(out) == out

\* what main hands back: the delegate's result (line 178), or None when
\* the except clause caught an error and main runs off its end
MainReturns(out) == IF out.kind = "return" THEN out ELSE Return(PNone)

\* numpy's state when main is left: the reset of lines 188-203 sits after
\* the try statement, which the return of line 178 never reaches
NumpyOnExit(self, np, out) ==
  IF out.kind = "raise" /\ self.no_arrays THEN Restore(np) ELSE np

\* the keyword a caller writes for debug.main itself
DebugKeywords(debug_msg) ==
  IF debug_msg = NoMsg THEN <<>> ELSE << <<kDebugMsg, PStr(debug_msg)>> >>

\* debug.main up to the call of the delegate (lines 137-167)
DebugCall(site, a, debug_msg, ti) ==
  /\ pc = "idle" /\ ops < MaxOps
  /\ wrapper.status = "composed" /\ "debug" \in DOMAIN wrapper.dict
  /\ ops' = ops + 1
  /\ LET self == DebugSelf
         where == get_caller_info(site)
         start == [kind |-> "start", name |-> self.wrapped_name,
                   filename |-> where[1], line_number |-> where[2]]
     IN /\ IF self.log_file = NoLogFile
           THEN /\ stdout' = stdout \o <<start>>
                /\ log' = log
           ELSE /\ log' = AppendLog(reset_maybe(self, log), <<start>>)
                /\ stdout' = stdout
        /\ numpy' = IF self.no_arrays THEN Suppress(numpy) ELSE numpy
        /\ frame' = [op |-> "debug", site |-> site, a |-> a,
                     debug_msg |-> debug_msg, ti |-> ti, numpy0 |-> numpy,
                     log0 |-> log, stdout0 |-> stdout, calls0 |-> calls,
                     passed |->
                       Forwarded("debug",
                         WithKeywords(a, DebugKeywords(debug_msg)))]
  /\ calls' = calls + 1
  /\ pc' = "callback"
  /\ UNCHANGED <<function, wrapper, cache, prev, last>>

\* the delegate finishes, the clock reading `elapsed` more than it read at
\* line 150 (lines 167-203): on a
\* result the done record is printed and the result returned; on an error
\* the failure and the traceback are printed, numpy's state is reset when
\* no_arrays is set, and main returns None
DebugResume(elapsed) ==
  /\ pc = "callback" /\ frame.op = "debug"
  /\ LET self == DebugSelf
         out == Wrapper(function, frame.passed)
         dt == (frame.ti + elapsed) - frame.ti
         recs == DebugRecords(function, frame.passed, frame.debug_msg, out, dt)
     IN /\ IF self.log_file = NoLogFile
           THEN /\ stdout' = stdout \o recs
                /\ log' = log
           ELSE /\ log' = AppendLog(log, recs)
                /\ stdout' = stdout
        /\ numpy' = NumpyOnExit(self, numpy, out)
        /\ prev' = last
        /\ last' = [op |-> "debug", a |-> frame.a,
                    debug_msg |-> frame.debug_msg, delegate |-> out,
                    out |-> MainReturns(out),
                    dt |-> IF out.kind = "return" THEN dt ELSE 0,
                    recs |-> recs, numpy0 |-> frame.numpy0,
                    log0 |-> frame.log0, stdout0 |-> frame.stdout0,
                    calls0 |-> frame.calls0, passed |-> frame.passed]
  /\ pc' = "idle"
  /\ frame' = NoFrame
  /\ UNCHANGED <<function, wrapper, cache, calls, ops>>

\* ------------------------------------------------- composing and reading

AttachNames == {"debug", "attr3", "__name__", "__call__", "__dict__"}

Hello == PStr(<<"H", "e", "l", "l", "o">>)

AttachValues ==
  { ClassOf("debug"), ClassOf("remember"),
    BundleOf("debug", <<>>, [log_file |-> LogPath, no_arrays |-> TRUE]),
    FunctionOf("attr1"),
    Literal(Hello), Literal(PDict(<<>>)) }

\* the keyword arguments of an endow call: up to n attachments under
\* distinct names, in the order given
Attachments(n) ==
  UNION { { s \in [1..k -> AttachNames \X AttachValues] :
              \A i, j \in 1..k : i # j => s[i][1] # s[j][1] } : k \in 0..n }

\* endow(function, **attributes) called by the user
EndowCall(atts) ==
  /\ pc = "idle" /\ wrapper.status = "none"
  /\ ops + Len(atts) <= MaxOps
  /\ ops' = ops + Len(atts)
  /\ wrapper' = endow(function, atts)
  /\ prev' = last
  /\ last' = [op |-> "endow", atts |-> atts, calls0 |-> calls]
  /\ UNCHANGED <<function, cache, log, stdout, numpy, calls, pc, frame>>

\* wrapper.<name> read by the user
ReadAttribute(n) ==
  /\ pc = "idle" /\ ops < MaxOps
  /\ wrapper.status = "composed"
  /\ ops' = ops + 1
  /\ prev' = last
  /\ last' = [op |-> "read", name |-> n,
              out |-> CASE n = "__name__" -> Return(Literal(wrapper.name))
                        [] n \in DOMAIN wrapper.dict -> Return(wrapper.dict[n])
                        [] OTHER -> Raise("AttributeError")]
  /\ UNCHANGED <<function, wrapper, cache, log, stdout, numpy, calls, pc,
                 frame>>

\* ------------------------------------------------- to_bytes on its own

Elems ==
  { PInt(1), PInt(2), PFloat(1), PStr(<<"1">>), PStr(<<"1", ",", "2">>) }

SeqsOf(S, n) == UNION { [1..k -> S] : k \in 0..n }

\* the elements of a set, and the keys of a dict, are pairwise unequal
Distinct(s) == \A i, j \in DOMAIN s : i # j => ~PyEq(s[i], s[j])

Values ==
  Elems
  \cup { PList(s) : s \in SeqsOf(Elems, MaxLen) }
  \cup { PTuple(s) : s \in SeqsOf(Elems, MaxLen) }
  \cup { PSet(s) : s \in { q \in SeqsOf(Elems, MaxLen) : Distinct(q) } }
  \cup { PDict(s) :
           s \in { q \in SeqsOf(Elems \X {PInt(1), PInt(2)}, MaxLen) :
                     Distinct([i \in DOMAIN q |-> q[i][1]]) } }

\* to_bytes(obj) called on the first and on the second of two values
ToBytesFirst ==
  /\ pc = "idle" /\ frame.op = "to_bytes" /\ last = NoOp
  /\ last' = [op |-> "to_bytes", obj |-> frame.x, out |-> to_bytes(frame.x)]
  /\ UNCHANGED <<function, wrapper, cache, log, stdout, numpy, calls, pc,
                 frame, ops, prev>>

ToBytesSecond ==
  /\ pc = "idle" /\ frame.op = "to_bytes" /\ last # NoOp /\ prev = NoOp
  /\ prev' = last
  /\ last' = [op |-> "to_bytes", obj |-> frame.y, out |-> to_bytes(frame.y)]
  /\ UNCHANGED <<function, wrapper, cache, log, stdout, numpy, calls, pc,
                 frame, ops>>

\* --------------------------------------------------------- specifications

Uncomposed == [status |-> "none"]

\* what earlier runs may have left: a cache entry named custom, and a log
\* file one line short of the rotation threshold
OldFiles == WriteFile(NoFiles, <<".", "/">> \o Custom, PickleDump(PInt(7)))
OldLog == [exists |-> TRUE, old |-> reset_when_lines - 1, recs |-> <<>>]
\* and a log file of exactly as many lines as the threshold
FullLog == [exists |-> TRUE, old |-> reset_when_lines, recs |-> <<>>]

AllAttachments == Attachments(MaxOps)

\* endow, then direct calls and attribute reads
InitEndow ==
  /\ function \in Functions
  /\ wrapper = Uncomposed
  /\ numpy = NumpyDefaults("1")
  /\ cache \in {NoFiles, OldFiles}
  /\ log \in {NoLog, OldLog}
  /\ stdout = <<>>
  /\ calls = 0
  /\ pc = "idle"
  /\ frame = NoFrame
  /\ ops = 0
  /\ prev = NoOp
  /\ last = NoOp

EndowArgSets == { Call(<<L12>>, <<>>), Call(<<L12, PFloat(2)>>, <<>>) }

NextEndow ==
  \/ wrapper.status = "none" /\ \E atts \in AllAttachments : EndowCall(atts)
  \/ \E a \in EndowArgSets : DirectCall(a)
  \/ \E n \in AttachNames : ReadAttribute(n)

SpecEndow == InitEndow /\ [][NextEndow]_vars

\* f = endow(f, remember=remember), then memoized and direct calls
InitRemember ==
  /\ function = "f"
  /\ wrapper = endow(function, << <<"remember", ClassOf("remember")>> >>)
  /\ numpy = NumpyDefaults("1")
  /\ cache = NoFiles
  /\ log = NoLog
  /\ stdout = <<>>
  /\ calls = 0
  /\ pc = "idle"
  /\ frame = NoFrame
  /\ ops = 0
  /\ prev = NoOp
  /\ last = NoOp

NextRemember ==
  \/ \E site \in Sites, a \in ArgSets, cache_id \in CacheIds, skip \in BOOLEAN :
       RememberCall(site, a, cache_id, skip)
  \/ RememberResume
  \/ \E a \in EndowArgSets : DirectCall(a)

SpecRemember == InitRemember /\ [][NextRemember]_vars

\* the same, with argument objects changed in place between the steps
NextMutate == NextRemember \/ MutateArgument

SpecMutate == InitRemember /\ [][NextMutate]_vars

\* the same, on a file system where a write may fail (OSError)
NextFaulty == NextRemember \/ RememberPersistFails("OSError")

SpecFaulty == InitRemember /\ [][NextFaulty]_vars

\* f = endow(f, debug=Bundle(debug, log_file=..., no_arrays=...)), then
\* instrumented calls
DebugArgSets ==
  { Call(<<L12>>, <<>>), Call(<<L12, PInt(2)>>, <<>>),
    Call(<<L12, PFloat(2)>>, <<>>) }
DebugSites == { [file |-> FileA, line |-> 12] }
StartTimes == { 1000 }
\* the second reading of time.time() less the first: the wall clock may be
\* set back between the two readings
Elapsed == { -1, 0, 59, 60, 3661 }

InitDebug ==
  /\ function = "f"
  /\ \E lf \in {NoLogFile, LogPath}, na \in BOOLEAN :
       /\ wrapper = endow(function,
                          << <<"debug",
                               BundleOf("debug", <<>>,
                                        [log_file |-> lf, no_arrays |-> na])>> >>)
       /\ log \in IF lf = NoLogFile THEN {NoLog}
                  ELSE {NoLog, OldLog, FullLog}
  /\ \E v \in {"1", "2.0", "2.1"} :
       numpy \in {NumpyDefaults(v), NumpyUser(v)}
  /\ cache = NoFiles
  /\ stdout = <<>>
  /\ calls = 0
  /\ pc = "idle"
  /\ frame = NoFrame
  /\ ops = 0
  /\ prev = NoOp
  /\ last = NoOp

NextDebug ==
  \/ \E site \in DebugSites, a \in DebugArgSets, m \in Msgs, ti \in StartTimes :
       DebugCall(site, a, m, ti)
  \/ \E d \in Elapsed : DebugResume(d)

SpecDebug == InitDebug /\ [][NextDebug]_vars

\* f = endow(f, debug=Bundle(debug, log_file=None, no_arrays=True),
\* remember=remember) as test composes it, then instrumented and memoized
\* calls
BothArgSets ==
  { Call(<<L12, PInt(2)>>, <<>>), Call(<<L12, PFloat(2)>>, <<>>),
    Call(<<>>, << <<kIterator, L12>>, <<kFactor, PInt(2)>> >>) }

InitBoth ==
  /\ function = "f"
  /\ wrapper = endow(function,
                     << <<"debug",
                          BundleOf("debug", <<>>,
                                   [log_file |-> NoLogFile, no_arrays |-> TRUE])>>,
                        <<"remember", ClassOf("remember")>> >>)
  /\ numpy = NumpyDefaults("1")
  /\ cache = NoFiles
  /\ log = NoLog
  /\ stdout = <<>>
  /\ calls = 0
  /\ pc = "idle"
  /\ frame = NoFrame
  /\ ops = 0
  /\ prev = NoOp
  /\ last = NoOp

NextBoth ==
  \/ \E site \in DebugSites, a \in BothArgSets, m \in Msgs, ti \in StartTimes :
       DebugCall(site, a, m, ti)
  \/ \E d \in Elapsed : DebugResume(d)
  \/ \E site \in DebugSites, a \in BothArgSets, cache_id \in CacheIds,
        skip \in BOOLEAN :
       RememberCall(site, a, cache_id, skip)
  \/ RememberResume

SpecBoth == InitBoth /\ [][NextBoth]_vars

\* to_bytes applied to two values
InitBytes ==
  /\ function = "f"
  /\ wrapper = Uncomposed
  /\ numpy = NumpyDefaults("1")
  /\ cache = NoFiles
  /\ log = NoLog
  /\ stdout = <<>>
  /\ calls = 0
  /\ pc = "idle"
  /\ \E x \in Values, y \in Values : frame = [op |-> "to_bytes", x |-> x, y |-> y]
  /\ ops = 0
  /\ prev = NoOp
  /\ last = NoOp

NextBytes == ToBytesFirst \/ ToBytesSecond

SpecBytes == InitBytes /\ [][NextBytes]_vars

\* ------------------------------------------------------------- properties

\* x and y are the same Python value, of the same types throughout, up to
\* the insertion order of dicts and the iteration order of sets
RECURSIVE Identical(_, _)
Identical(x, y) ==
  /\ x.t = y.t
  /\ CASE x.t \in {"list", "tuple"} ->
            /\ Len(x.v) = Len(y.v)
            /\ \A i \in DOMAIN x.v : Identical(x.v[i], y.v[i])
       [] x.t = "dict" ->
            /\ Len(x.v) = Len(y.v)
            /\ \A i \in DOMAIN x.v : \E j \in DOMAIN y.v :
                 Identical(x.v[i][1], y.v[j][1]) /\ Identical(x.v[i][2], y.v[j][2])
       [] x.t = "set" ->
            /\ Len(x.v) = Len(y.v)
            /\ \A i \in DOMAIN x.v : \E j \in DOMAIN y.v : Identical(x.v[i], y.v[j])
       [] OTHER -> x.v = y.v

\* two calls pass the same arguments: identical, or equal under Python's ==
SameArguments(a, b) ==
  /\ Identical(PTuple(a.args), PTuple(b.args))
  /\ Identical(PDict(a.kwargs), PDict(b.kwargs))
EqualArguments(a, b) ==
  /\ PyEq(PTuple(a.args), PTuple(b.args))
  /\ PyEq(PDict(a.kwargs), PDict(b.kwargs))

\* the last two completed operations are memoized calls that derive their
\* key (no cache_id, skip=False)
TwoDerivedCalls ==
  /\ prev.op = "remember" /\ last.op = "remember"
  /\ ~prev.skip /\ ~last.skip
  /\ prev.cache_id = NoId /\ last.cache_id = NoId

\* the cache directory holds what it held before the earlier of the two
\* calls, and one file more
OneFileWritten ==
  /\ prev.path \notin DOMAIN prev.cache0
  /\ DOMAIN cache = DOMAIN prev.cache0 \cup {prev.path}
  /\ \A q \in DOMAIN prev.cache0 : cache[q] = prev.cache0[q]

\* C1: whatever was attached, a direct call of the composed callable returns
\* what function(*args, **kwargs) returns, or raises the error it raises,
\* invokes the function exactly once, and leaves the cache directory, the
\* log file and standard output as they were.
C1_PassThrough ==
  last.op = "direct" =>
    /\ last.out = Apply(function, last.a.args, last.a.kwargs)
    /\ calls = last.calls0 + 1
    /\ cache = last.cache0
    /\ log = last.log0
    /\ stdout = last.stdout0

\* a direct call that raised, on a wrapper with debug attached, with a file
\* in the cache directory
C1_Witness ==
  /\ last.op = "direct" /\ last.out.kind = "raise"
  /\ "debug" \in DOMAIN wrapper.dict
  /\ cache # NoFiles

Target == IF DebugSelf.log_file = NoLogFile THEN stdout ELSE log.recs

\* C3: when the delegate raises inside debug.main, main returns None, the
\* log target ends with the FAILED line and the traceback of that error,
\* and a direct call with the same arguments raises.
C3_Swallows ==
  (pc = "idle" /\ last.op = "debug" /\ last.delegate.kind = "raise") =>
    /\ last.out = Return(PNone)
    /\ Len(Target) >= 3
    /\ Target[Len(Target) - 2].kind = "start"
    /\ Target[Len(Target) - 1].kind = "failed"
    /\ Target[Len(Target)].kind = "trace"
    /\ Target[Len(Target)].error = last.delegate.val
    /\ Wrapper(function, last.a) = Raise(last.delegate.val)

\* a call whose delegate raised AttributeError, logged to the log file
C3_Witness ==
  /\ pc = "idle" /\ last.op = "debug"
  /\ last.delegate = Raise("AttributeError")
  /\ DebugSelf.log_file = LogPath
  /\ last.out = Return(PNone)

\* C4: with no_arrays set, numpy's print state after an instrumented call
\* has returned is the state the call found, whether the delegate returned
\* or raised.
C4_Restored ==
  (pc = "idle" /\ last.op = "debug" /\ DebugSelf.no_arrays) =>
    numpy = last.numpy0

\* the names a function object already has a member under
ReservedNames == {"__name__", "__call__", "__dict__"}

\* C5: an endow call that names an attachment after a reserved member of
\* the composed callable raises, and returns no wrapper.
C5_Rejected ==
  ( /\ last.op = "endow"
    /\ \E i \in DOMAIN last.atts : last.atts[i][1] \in ReservedNames ) =>
    wrapper.status = "raised"

\* C6: a memoized call with skip=True returns None, does not invoke the
\* delegate and leaves the cache directory as it was, whatever the
\* arguments, the cache_id and the files present.
C6_Skip ==
  (last.op = "remember" /\ last.skip) =>
    /\ last.branch = "skip"
    /\ last.out = Return(PNone)
    /\ last.invoked = 0
    /\ pc = "idle" => (cache = last.cache0 /\ calls = last.calls0)

\* a skipped call with cache_id="custom" while ./custom exists
C6_Witness ==
  /\ pc = "idle" /\ last.op = "remember" /\ last.skip
  /\ last.cache_id = Custom
  /\ Exists(last.cache0, DotSlash \o Custom)
  /\ last.site.file = FileB

\* C7: a memoized call given a cache_id uses it as the key: the path is
\* ./<cache_id>, the call is a hit exactly when that file existed when it
\* started, and a miss whose delegate returns writes that file and no other.
C7_Verbatim ==
  (last.op = "remember" /\ ~last.skip /\ last.cache_id # NoId) =>
    /\ last.key = last.cache_id
    /\ last.path = DotSlash \o last.cache_id
    /\ last.branch = IF Exists(last.cache0, last.path) THEN "hit" ELSE "miss"
    /\ last.invoked = IF last.branch = "miss" THEN 1 ELSE 0
    /\ (pc = "idle" /\ last.branch = "miss" /\ last.out.kind = "return") =>
         /\ DOMAIN cache = DOMAIN last.cache0 \cup {last.path}
         /\ cache[last.path] = PickleDump(last.out.val)

\* a hit on ./custom by a call whose arguments and caller file differ from
\* those of the call that wrote it
C7_Witness ==
  /\ pc = "idle" /\ prev.op = "remember" /\ last.op = "remember"
  /\ prev.cache_id = Custom /\ last.cache_id = Custom
  /\ prev.branch = "miss" /\ last.branch = "hit"
  /\ prev.a # last.a /\ prev.site.file # last.site.file
  /\ DOMAIN cache = {DotSlash \o Custom}

\* t is s with its elements in another order
Permuted(s, t) ==
  /\ Len(s) = Len(t)
  /\ \E f \in [DOMAIN s -> DOMAIN s] :
       /\ \A i, j \in DOMAIN s : i # j => f[i] # f[j]
       /\ \A i \in DOMAIN s : t[i] = s[f[i]]

\* C8: to_bytes gives equal dicts, and equal sets, the same bytes whatever
\* their insertion order, and gives a list or tuple and a permutation of it
\* that moves unequal elements different bytes.
C8_Order ==
  (prev.op = "to_bytes" /\ last.op = "to_bytes" /\ prev.obj.t = last.obj.t) =>
    /\ (prev.obj.t \in {"dict", "set"} /\ PyEq(prev.obj, last.obj)) =>
         (prev.out # TypeError /\ prev.out = last.out)
    /\ ( /\ prev.obj.t \in {"list", "tuple"}
         /\ Permuted(prev.obj.v, last.obj.v)
         /\ \E i \in DOMAIN prev.obj.v : ~PyEq(prev.obj.v[i], last.obj.v[i]) ) =>
         prev.out # last.out

\* C9, as stated: two memoized calls from one caller file whose arguments
\* are equal under == derive the same key.
C9_AsStated ==
  ( /\ TwoDerivedCalls
    /\ prev.site.file = last.site.file
    /\ EqualArguments(prev.a, last.a) ) =>
    (last.key = prev.key /\ last.path = prev.path)

\* C9: two memoized calls from one caller file, on the same wrapped
\* callable, with identical arguments (same values and types, up to the
\* order of keywords, dict items and set elements) derive the same key and
\* address the same cache file.
C9_Stable ==
  ( /\ TwoDerivedCalls
    /\ prev.site.file = last.site.file
    /\ SameArguments(prev.a, last.a) ) =>
    (last.key = prev.key /\ last.path = prev.path)

\* two calls from different lines of one file, the keywords in different
\* orders, that derived a key
C9_Witness ==
  /\ TwoDerivedCalls
  /\ prev.site.file = last.site.file /\ prev.site.line # last.site.line
  /\ SameArguments(prev.a, last.a) /\ prev.a # last.a
  /\ last.key # NoKey /\ last.key = prev.key

\* C10: the h, m and s of a done record decompose the elapsed time dt:
\* h*3600 + m*60 + s = dt, h = dt div 3600, 0 <= m < 60 and 0 <= s < 60.
C10_Decomposition ==
  ( /\ pc = "idle" /\ last.op = "debug" /\ last.delegate.kind = "return"
    /\ last.dt >= 0 ) =>
    /\ last.recs[1].kind = "done"
    /\ last.recs[1].h * 3600 + last.recs[1].m * 60 + last.recs[1].s = last.dt
    /\ last.recs[1].h = last.dt \div 3600
    /\ 0 <= last.recs[1].m /\ last.recs[1].m < 60
    /\ 0 <= last.recs[1].s /\ last.recs[1].s < 60

\* C11: while a debug.main call awaits its delegate, a configured log file
\* that held at least reset_when_lines lines when the call started has been
\* removed and holds the start record alone; one that held fewer, or did
\* not exist, holds what it held and then the start record; with no log
\* file configured the log file is as it was.
C11_Rotation ==
  (pc = "callback" /\ frame.op = "debug") =>
    IF DebugSelf.log_file = NoLogFile
    THEN log = frame.log0
    ELSE /\ log.exists
         /\ log.recs[Len(log.recs)].kind = "start"
         /\ IF /\ frame.log0.exists
               /\ LineCount(frame.log0) >= DebugSelf.reset_when_lines
            THEN log.old = 0 /\ Len(log.recs) = 1
            ELSE /\ log.old = frame.log0.old
                 /\ SubSeq(log.recs, 1, Len(log.recs) - 1) = frame.log0.recs

\* a call that found the log file at exactly the threshold and removed it
C11_Witness ==
  /\ pc = "callback" /\ frame.op = "debug"
  /\ DebugSelf.log_file = LogPath
  /\ frame.log0.exists
  /\ LineCount(frame.log0) = DebugSelf.reset_when_lines
  /\ LineCount(log) = 1

\* what reading wrapper.<n> gives on the composed wrapper w
Missing == [k |-> "missing"]
Attr(w, n) ==
  CASE n = "__name__" -> Literal(w.name)
    [] n \in DOMAIN w.dict -> w.dict[n]
    [] OTHER -> Missing

\* m is the entry point main of an instance of cls made for this wrapper
\* and this function's name
IsMainOf(m, cls) ==
  /\ m.k = "method" /\ m.name = "main"
  /\ m.self.cls = cls
  /\ m.self.callback = "wrapper"
  /\ m.self.wrapped_name = FunctionName(function)

\* C12: endow returns a wrapper on which every attachment reads as its
\* class prescribes: for a Bundle, main of an instance of its method built
\* with the configured keywords; for another callable, main of an instance
\* built with the defaults; for any other value, the value itself.
C12_Classified ==
  last.op = "endow" =>
    /\ wrapper.status = "composed"
    /\ \A i \in DOMAIN last.atts :
         LET n == last.atts[i][1]
             value == last.atts[i][2]
         IN CASE value.k = "Bundle" ->
                   /\ IsMainOf(Attr(wrapper, n), value.method)
                   /\ \A kw \in DOMAIN value.kwargs :
                        Attr(wrapper, n).self[kw] = value.kwargs[kw]
              [] value.k = "class" ->
                   /\ IsMainOf(Attr(wrapper, n), value.cls)
                   /\ \A kw \in DOMAIN Defaults(value.cls) :
                        kw \in DOMAIN Attr(wrapper, n).self =>
                          Attr(wrapper, n).self[kw] = Defaults(value.cls)[kw]
              [] value.k = "function" -> Attr(wrapper, n).k = "method"
              [] OTHER -> Attr(wrapper, n) = value

\* C13: whatever the argument objects hold once the delegate has finished
\* or the caller has resumed, a memoized call's key is the one its
\* arguments gave when the call was made, and a miss whose delegate
\* returned has written its result under that key and nowhere else.
C13_KeyFixed ==
  (pc = "idle" /\ last.op = "remember" /\ last.branch \in {"hit", "miss"}) =>
    /\ last.key = EffectiveKey(RememberSelf, last.site, last.a, last.cache_id)
    /\ last.path = CachePath(RememberSelf, last.key)
    /\ (last.branch = "miss" /\ last.out.kind = "return") =>
         /\ DOMAIN cache = DOMAIN last.cache0 \cup {last.path}
         /\ cache[last.path] = PickleDump(last.out.val)
         /\ last.out = Wrapper(function, last.a)

\* a miss whose delegate changed a list argument in place and returned
C13_Witness ==
  /\ pc = "idle" /\ last.op = "remember" /\ last.cache_id = NoId
  /\ last.branch = "miss" /\ last.out.kind = "return"
  /\ last.live # last.a
  /\ last.path \in DOMAIN cache
  /\ last.path # CachePath(RememberSelf,
                           DerivedKey(RememberSelf, last.site, last.live))

\* C14: the elapsed time of every instrumented call whose delegate returned,
\* and the h, m and s its done record shows, are non-negative.
C14_NonNegative ==
  (pc = "idle" /\ last.op = "debug" /\ last.delegate.kind = "return") =>
    /\ last.dt >= 0
    /\ last.recs[1].h >= 0
    /\ last.recs[1].m >= 0
    /\ last.recs[1].s >= 0

\* C15: endow given a plain function as an attachment returns a wrapper on
\* which the attachment's name reads as that function, so that calling it
\* calls the function.
C15_PlainFunction ==
  last.op = "endow" =>
    \A i \in DOMAIN last.atts :
      last.atts[i][2].k = "function" =>
        /\ wrapper.status = "composed"
        /\ Attr(wrapper, last.atts[i][1]) = last.atts[i][2]

\* a hit returned what the file at its key held, without invoking the
\* delegate, and left the cache directory and the invocation count alone
HitReadsEntry ==
  (last.op = "remember" /\ last.branch = "hit") =>
    /\ last.path \in DOMAIN last.cache0
    /\ last.out = PickleLoad(last.cache0[last.path])
    /\ last.invoked = 0
    /\ pc = "idle" => (cache = last.cache0 /\ calls = last.calls0)

\* a step keeps every file of the cache directory with its contents, and
\* adds a file only as the end of a miss, at that miss's path
EntriesKept ==
  /\ \A q \in DOMAIN cache : q \in DOMAIN cache' /\ cache'[q] = cache[q]
  /\ cache' # cache =>
       /\ pc = "callback" /\ frame.op = "remember"
       /\ frame.plan.branch = "miss"
       /\ DOMAIN cache' = DOMAIN cache \cup {frame.plan.path}

\* C16: a memoized call that finds an entry at its key returns the entry
\* deserialized, invokes nothing and changes no file; no step deletes or
\* overwrites a cache file, and files appear only at the end of a miss.
C16_NeverInvalidated == []HitReadsEntry /\ [][EntriesKept]_vars

\* a hit on a derived key, on the entry the call before it wrote
C16_Witness ==
  /\ pc = "idle" /\ last.op = "remember" /\ last.branch = "hit"
  /\ last.cache_id = NoId
  /\ prev.op = "remember" /\ prev.branch = "miss" /\ prev.path = last.path
  /\ cache[last.path] = PickleDump(prev.out.val)

\* C17: an entry point invokes the delegate at most once - debug.main once,
\* remember.main once on a miss and not at all otherwise - with the
\* caller's arguments less main's own keywords, and hands back what the
\* delegate returned.
C17_DelegateOnce ==
  /\ pc = "callback" => (calls = frame.calls0 + 1 /\ frame.passed = frame.a)
  /\ (pc = "idle" /\ last.op = "debug") =>
       /\ calls = last.calls0 + 1
       /\ last.passed = last.a
       /\ last.delegate = Apply(function, last.a.args, last.a.kwargs)
       /\ last.delegate.kind = "return" => last.out = last.delegate
  /\ (pc = "idle" /\ last.op = "remember") =>
       /\ last.invoked = IF last.branch = "miss" THEN 1 ELSE 0
       /\ calls = last.calls0 + last.invoked
       /\ last.branch = "miss" =>
            /\ last.passed = last.a
            /\ last.out = Apply(function, last.a.args, last.a.kwargs)
       /\ last.branch # "miss" => last.passed = NoCall

\* an instrumented call with a note, then a miss with cache_id="custom",
\* both with keyword arguments for the delegate, both returning
C17_Witness ==
  /\ pc = "idle"
  /\ prev.op = "debug" /\ prev.debug_msg # NoMsg /\ prev.a.kwargs # <<>>
  /\ prev.delegate.kind = "return"
  /\ last.op = "remember" /\ last.cache_id = Custom /\ last.a.kwargs # <<>>
  /\ last.branch = "miss" /\ last.out.kind = "return"
  /\ calls = 2

\* the records of t come in blocks: a start record, then a done record or
\* a failed record and its trace; only a call that still awaits its
\* delegate has a start record with nothing after it
Blocks(t) ==
  /\ t # <<>> => t[1].kind = "start"
  /\ \A i \in DOMAIN t :
       CASE t[i].kind = "start" ->
              IF i = Len(t) THEN pc = "callback"
              ELSE t[i + 1].kind \in {"done", "failed"}
         [] t[i].kind = "done" ->
              /\ i > 1 /\ t[i - 1].kind = "start"
              /\ i < Len(t) => t[i + 1].kind = "start"
         [] t[i].kind = "failed" ->
              /\ i > 1 /\ t[i - 1].kind = "start"
              /\ i < Len(t) /\ t[i + 1].kind = "trace"
         [] t[i].kind = "trace" ->
              /\ i > 1 /\ t[i - 1].kind = "failed"
              /\ i < Len(t) => t[i + 1].kind = "start"

\* the call completed last left its start record and then its one block at
\* the end of the target; a done block carries the note exactly when
\* debug_msg was given
LastBlock ==
  (pc = "idle" /\ last.op = "debug") =>
    /\ Len(Target) >= 1 + Len(last.recs)
    /\ Target[Len(Target) - Len(last.recs)].kind = "start"
    /\ SubSeq(Target, Len(Target) - Len(last.recs) + 1, Len(Target)) = last.recs
    /\ last.recs[1].kind = IF last.delegate.kind = "return" THEN "done"
                           ELSE "failed"
    /\ Len(last.recs) = IF last.delegate.kind = "return" THEN 1 ELSE 2
    /\ last.delegate.kind = "return" =>
         (last.recs[1].note <=> last.debug_msg # NoMsg)

\* a step appends to the target, or starts a call that finds the log file
\* at the threshold and leaves the start record alone in a fresh file
AppendsOnly ==
  \/ /\ Len(Target') >= Len(Target)
     /\ SubSeq(Target', 1, Len(Target)) = Target
  \/ /\ pc = "idle" /\ pc' = "callback"
     /\ DebugSelf.log_file # NoLogFile
     /\ LineCount(log) >= DebugSelf.reset_when_lines
     /\ Len(Target') = 1

\* C18: each debug.main call appends one start record before the delegate
\* runs and, once it has finished, either the done block or the failed
\* block with its trace; the note is in the done block exactly when
\* debug_msg was given; records are appended in call order and removed
\* only by rotation.
C18_LogOrder == [](Blocks(Target) /\ LastBlock) /\ [][AppendsOnly]_vars

\* a call with a note that returned, then a call that failed, both logged
\* to the log file
C18_Witness ==
  /\ pc = "idle" /\ DebugSelf.log_file = LogPath
  /\ prev.op = "debug" /\ prev.delegate.kind = "return"
  /\ prev.debug_msg # NoMsg
  /\ last.op = "debug" /\ last.delegate.kind = "raise"
  /\ Len(log.recs) = 5
  /\ log.recs[2].kind = "done" /\ log.recs[2].note
  /\ log.recs[5].kind = "trace"

\* C19: after any sequence of remember.main calls, also those whose
\* delegate raised or whose result could not be written, every file of the
\* cache directory holds a complete serialized result, a call that failed
\* on a miss left no file at its path, and the next call with its key is a
\* miss that invokes the delegate.
C19_Atomic ==
  /\ \A p \in DOMAIN cache : cache[p].fmt = "pickle"
  /\ (pc = "idle" /\ last.op = "remember" /\ last.branch = "miss"
      /\ last.out.kind = "raise") => ~Exists(cache, last.path)
  /\ (pc = "idle" /\ prev.op = "remember" /\ last.op = "remember"
      /\ prev.branch = "miss" /\ prev.out.kind = "raise"
      /\ last.branch # "skip" /\ last.key = prev.key) =>
       (last.branch = "miss" /\ last.invoked = 1)

\* the byte strings get_cache_id hashes for the arguments a
ArgBytes(a) == <<to_bytes(PTuple(a.args)), to_bytes(PDict(a.kwargs))>>

\* the call completed last and the one before it are memoized calls made
\* from one file without cache_id or skip, the first on an empty cache
\* directory, and their keys are equal only if the hashed bytes are
DerivedPair ==
  /\ pc = "idle"
  /\ prev.op = "remember" /\ last.op = "remember"
  /\ prev.cache0 = NoFiles
  /\ prev.cache_id = NoId /\ last.cache_id = NoId
  /\ ~prev.skip /\ ~last.skip
  /\ prev.site.file = last.site.file
  /\ prev.branch # "error" /\ last.branch # "error"
  /\ prev.key = last.key => ArgBytes(prev.a) = ArgBytes(last.a)

\* C20: from an empty cache directory, with calls made from one file
\* without cache_id or skip and no collision of digests, a memoized call
\* returns what a direct call with the same arguments returns: argument
\* sets on which the delegate differs never share a cache entry.
C20_Sound ==
  DerivedPair =>
    /\ last.out = Wrapper(function, last.a)
    /\ Wrapper(function, prev.a) # Wrapper(function, last.a) =>
         last.path # prev.path

====
